---- MODULE Spec2Model ----
(***************************************************************************)
(* Secure task-trigger protocol of nuxt-scheduled-tasks-example:           *)
(*   - the Nitro task 'example:record'            (record.ts 1-13)         *)
(*   - the Secured Trigger Endpoint               (record.ts 16-48)        *)
(*   - the Netlify scheduled function, as shipped (example-task.mts)       *)
(*     and in its variant that checks response.success (part_000)          *)
(* Every handler is cut at its awaits: one action per run-to-next-await.   *)
(***************************************************************************)
EXTENDS Integers, FiniteSets, TLC

MaxReq == 2      \* endpoint requests in one behaviour
MaxTick == 1     \* invocations of the scheduled function
MaxRun == 1      \* runs of the Nitro task by the in-process scheduler
MaxClock == 1    \* Date.now() ranges over 0..MaxClock

(* ---------------------------- JavaScript values ------------------------ *)

Undefined == "<undefined>"
SharedSecret == "abc123"
WrongSecret == "wrong"

\* !x for the values a secret can take: undefined and "" are falsy.
Falsy(x) == x \in {Undefined, ""}

\* String(now): the decimal text of a number.
String(n) == ToString(n)

(* ------------------------------ configuration -------------------------- *)

\* process.env.TASK_SECRET as runtimeConfig.taskSecret: unset, empty or set.
TaskSecretValues == {Undefined, "", SharedSecret}

\* process.env.NUXT_TASK_SECRET as the scheduled function reads it.
EnvSecretValues == {Undefined, SharedSecret, WrongSecret}

(* ------------------------------ HTTP values ---------------------------- *)

\* A request body on the wire.
RawBody(kind, secret) == [kind |-> kind, secret |-> secret]

RawBodies ==
  {RawBody("malformed", Undefined), RawBody("empty", Undefined)}
    \cup {RawBody("object", s) : s \in {Undefined, "", SharedSecret, WrongSecret}}

\* An HTTP response; absent JSON fields are "absent" / -1.
Response(status, statusMessage, success, timestamp, message, result) ==
  [status |-> status, statusMessage |-> statusMessage, success |-> success,
   timestamp |-> timestamp, message |-> message, result |-> result]

NoResponse == Response(0, "", "absent", -1, "absent", "absent")

\* createError({ statusCode, statusMessage }) as the response h3 sends for it.
createError(statusCode, statusMessage) ==
  Response(statusCode, statusMessage, "absent", -1, "absent", "absent")

\* An error that is not an H3Error (TypeError, a storage driver's error)
\* ends the exchange with a 500.
UnhandledError == createError(500, "Internal Server Error")

\* A log line: who wrote it, at which level, its text, and the strings printed
\* with it.
Line(src, level, text, strs) ==
  [src |-> src, level |-> level, text |-> text, strs |-> strs]

\* The strings console.log prints for a response object.
Printed(resp) ==
  ({ToString(resp.status), resp.statusMessage, resp.success, resp.message,
    resp.result} \cup (IF resp.timestamp >= 0 THEN {ToString(resp.timestamp)} ELSE {}))
    \ {"absent", ""}

(* --------------------------------- state ------------------------------- *)

VARIABLES
  taskSecret,   \* useRuntimeConfig().taskSecret, fixed for the process lifetime
  clock,        \* what Date.now() returns
  reqs,         \* the endpoint's requests, each with its position in the handler
  storage,      \* useStorage("example:record"): records with unique keys
  ticks,        \* invocations of the scheduled function
  runs          \* runs of the Nitro task 'example:record'

vars == <<taskSecret, clock, reqs, storage, ticks, runs>>

Reqs == 1..MaxReq
Ticks == 1..MaxTick
Runs == 1..MaxRun

IdleReq ==
  [pc |-> "idle", origin |-> 0, raw |-> RawBody("empty", Undefined), now |-> -1,
   setCalls |-> 0, setItem |-> "none", response |-> NoResponse, log |-> {}]

IdleTick ==
  [pc |-> "idle", variant |-> "none", meta |-> "none", secret |-> Undefined,
   url |-> "none", req |-> 0,
   resolved |-> FALSE, received |-> NoResponse, log |-> {}]

IdleRun ==
  [pc |-> "idle", now |-> -1, set |-> "none", threw |-> FALSE,
   result |-> NoResponse, log |-> {}]

\* Slots are handed out in order.
NextFree(f, S) == {i \in S : f[i].pc = "idle" /\ \A j \in S : j < i => f[j].pc # "idle"}

(* ------------------------------- key-value ----------------------------- *)

StorageKey(type, text) == [type |-> type, text |-> text]

\* storage.setItem(key, value) once settled: the record under key is replaced.
Put(store, key, value, by) ==
  {e \in store : e.key # key} \cup {[key |-> key, value |-> value, by |-> by]}

(* ---------------------- Secured Trigger Endpoint ----------------------- *)

\* readBody(event): rejects on a body it cannot parse, yields undefined for
\* an empty body, the parsed object otherwise.
readBody(raw) ==
  [threw |-> raw.kind = "malformed",
   nullish |-> raw.kind = "empty",
   secret |-> IF raw.kind = "object" THEN raw.secret ELSE Undefined]

SecretMissingUndefinedOnly(secretKey) == secretKey = Undefined

\* if (!secretKey)
SecretMissing(secretKey) == Falsy(secretKey)

SecretMismatchPresenceOnly(body, secretKey) == Falsy(body.secret)

\* if (body.secret !== secretKey)
SecretMismatch(body, secretKey) == body.secret # secretKey

RunLineWithSecret(src, now) ==
  Line(src, "log", "Running example record task: ", {ToString(now), taskSecret})

\* console.log("Running example record task: ", now)
RunLine(src, now) == Line(src, "log", "Running example record task: ", {ToString(now)})

KeyConstant(now) == StorageKey("string", "now")

\* String(now), the key of storage.setItem
Key(now) == StorageKey("string", String(now))

TaskResultAtReturn(now) ==
  Response(200, "", "true", clock, "Task completed successfully", "absent")

\* return { success: true, timestamp: now, message: "Task completed successfully" }
TaskResult(now) ==
  Response(200, "", "true", now, "Task completed successfully", "absent")

SetItemNotAwaited(ok, now) == TaskResult(now)

\* await storage.setItem(...); return {...}: a rejection leaves the handler
\* as an unhandled error, a resolution reaches the return.
AwaitSetItem(ok, now) == IF ok THEN TaskResult(now) ELSE UnhandledError

Respond(r, resp) ==
  reqs' = [reqs EXCEPT ![r].pc = "done", ![r].response = resp]

\* A request arrives; the handler starts and suspends in await readBody(event).
Request(raw) ==
  /\ \E r \in NextFree(reqs, Reqs) :
       reqs' = [reqs EXCEPT ![r] = [IdleReq EXCEPT !.pc = "readBody", !.raw = raw]]
  /\ UNCHANGED <<taskSecret, clock, storage, ticks, runs>>

\* readBody settles; the handler runs to its next await or to a throw.
Handle(r) ==
  /\ reqs[r].pc = "readBody"
  /\ LET body == readBody(reqs[r].raw)
         secretKey == taskSecret
     IN IF body.threw
          THEN Respond(r, createError(400, "Bad Request"))
        ELSE IF SecretMissing(secretKey)
          THEN Respond(r, createError(500, "Secret must be set"))
        ELSE IF body.nullish
          THEN Respond(r, UnhandledError)
        ELSE IF SecretMismatch(body, secretKey)
          THEN Respond(r, createError(401, "Unauthorized"))
        ELSE reqs' = [reqs EXCEPT ![r].pc = "setItem",
                                  ![r].now = clock,
                                  ![r].log = {RunLine("endpoint", clock)},
                                  ![r].setCalls = reqs[r].setCalls + 1,
                                  ![r].setItem = "pending"]
  /\ UNCHANGED <<taskSecret, clock, storage, ticks, runs>>

\* storage.setItem settles: resolved (the record is stored) or rejected.
SettleSetItem(r, ok) ==
  /\ reqs[r].pc = "setItem"
  /\ reqs' = [reqs EXCEPT ![r].pc = "done",
                          ![r].setItem = IF ok THEN "resolved" ELSE "rejected",
                          ![r].response = AwaitSetItem(ok, reqs[r].now)]
  /\ storage' = IF ok
                  THEN Put(storage, Key(reqs[r].now), reqs[r].now,
                           [kind |-> "endpoint", id |-> r])
                  ELSE storage
  /\ UNCHANGED <<taskSecret, clock, ticks, runs>>

(* ----------------------- Nitro task 'example:record' ------------------- *)

\* return { result: "Success" }
TaskReturn == Response(0, "", "absent", -1, "absent", "Success")

\* run(): reads the clock, logs, calls storage.set(now, now) without awaiting
\* it, and returns.
RunTask ==
  /\ \E k \in NextFree(runs, Runs) :
       runs' = [runs EXCEPT ![k] = [pc |-> "returned", now |-> clock, set |-> "pending",
                                    threw |-> FALSE, result |-> TaskReturn,
                                    log |-> {RunLine("task", clock)}]]
  /\ UNCHANGED <<taskSecret, clock, reqs, storage, ticks>>

\* The promise of storage.set settles after run() has returned.
SettleSet(k, ok) ==
  /\ runs[k].set = "pending"
  /\ runs' = [runs EXCEPT ![k].set = IF ok THEN "resolved" ELSE "rejected"]
  /\ storage' = IF ok
                  THEN Put(storage, StorageKey("number", ToString(runs[k].now)),
                           runs[k].now, [kind |-> "task", id |-> k])
                  ELSE storage
  /\ UNCHANGED <<taskSecret, clock, reqs, ticks>>

(* ------------------- Netlify scheduled function ------------------------ *)

\* The two versions of the function in the repository.
Variants == {"unchecked", "checked"}

\* The platform's request body: JSON carrying next_run, or something
\* req.json() cannot read.
Metas == {"readable", "unreadable"}

NextRun == "next_run"

\* What a host other than the endpoint answers with a 2xx: a result that
\* reports failure, or the Nitro task's own return value (no success field).
OtherResponses ==
  {Response(200, "", "false", 0, "Task did not complete", "absent"),
   Response(200, "", "absent", -1, "absent", "Success")}

\* $fetch rejects without a response: connection refused, timeout.
FetchFailed == Response(0, "fetch failed", "absent", -1, "absent", "absent")

\* body: { secret: process.env.NUXT_TASK_SECRET }
FetchBody(secret) == RawBody("object", secret)

\* console.log("Scheduled function triggered. Next run:", next_run)
TriggeredLine ==
  Line("trigger", "log", "Scheduled function triggered. Next run:", {NextRun})

\* console.log("Task completed:", response)
CompletedLine(resp) == Line("trigger", "log", "Task completed:", Printed(resp))

\* console.error("Task failed:", error)
FailedLine(err) == Line("trigger", "error", "Task failed:", Printed(err))

\* The try block after $fetch has settled, and its catch: the line logged.
\*   unchecked (example-task.mts 17-19): a resolved $fetch is logged as completed.
\*   checked   (part_000 17-24): if (!response.success) throw, caught and logged.
AfterFetch(variant, resolved, resp) ==
  IF ~resolved THEN FailedLine(resp)
  ELSE IF variant = "checked" /\ resp.success # "true" THEN FailedLine(resp)
  ELSE CompletedLine(resp)

\* The platform invokes the function; it suspends in await req.json().
Invoke(variant, meta) ==
  /\ \E t \in NextFree(ticks, Ticks) :
       ticks' = [ticks EXCEPT ![t] = [IdleTick EXCEPT !.pc = "json",
                                                     !.variant = variant,
                                                     !.meta = meta]]
  /\ UNCHANGED <<taskSecret, clock, reqs, storage, runs>>

\* req.json() rejects outside the try block: the invocation ends with an
\* uncaught rejection.
JsonRejected(t) ==
  /\ ticks[t].pc = "json"
  /\ ticks[t].meta = "unreadable"
  /\ ticks' = [ticks EXCEPT ![t].pc = "crashed"]
  /\ UNCHANGED <<taskSecret, clock, reqs, storage, runs>>

\* req.json() resolves; the function logs and posts to the site's endpoint.
FetchSite(t, secret) ==
  /\ ticks[t].pc = "json"
  /\ ticks[t].meta = "readable"
  /\ \E r \in NextFree(reqs, Reqs) :
       /\ reqs' = [reqs EXCEPT ![r] = [IdleReq EXCEPT !.pc = "readBody",
                                                     !.raw = FetchBody(secret),
                                                     !.origin = t]]
       /\ ticks' = [ticks EXCEPT ![t].pc = "fetch", ![t].req = r,
                                 ![t].secret = secret, ![t].url = "site",
                                 ![t].log = {TriggeredLine}]
  /\ UNCHANGED <<taskSecret, clock, storage, runs>>

\* The same when process.env.URL is another host.
FetchOther(t, secret) ==
  /\ ticks[t].pc = "json"
  /\ ticks[t].meta = "readable"
  /\ ticks' = [ticks EXCEPT ![t].pc = "fetch", ![t].secret = secret,
                            ![t].url = "other", ![t].log = {TriggeredLine}]
  /\ UNCHANGED <<taskSecret, clock, reqs, storage, runs>>

Settle(t, resolved, resp) ==
  ticks' = [ticks EXCEPT ![t].pc = "done", ![t].resolved = resolved,
                         ![t].received = resp,
                         ![t].log = ticks[t].log
                                      \cup {AfterFetch(ticks[t].variant, resolved, resp)}]

\* The endpoint has answered: $fetch resolves on 2xx and rejects otherwise.
EndpointAnswers(t) ==
  /\ ticks[t].pc = "fetch"
  /\ ticks[t].req # 0
  /\ reqs[ticks[t].req].pc = "done"
  /\ LET resp == reqs[ticks[t].req].response
     IN Settle(t, resp.status = 200, resp)
  /\ UNCHANGED <<taskSecret, clock, reqs, storage, runs>>

\* Another host has answered with a 2xx.
OtherAnswers(t, resp) ==
  /\ ticks[t].pc = "fetch"
  /\ ticks[t].req = 0
  /\ Settle(t, TRUE, resp)
  /\ UNCHANGED <<taskSecret, clock, reqs, storage, runs>>

\* No answer arrives: $fetch rejects with a transport error.
TransportError(t) ==
  /\ ticks[t].pc = "fetch"
  /\ Settle(t, FALSE, FetchFailed)
  /\ UNCHANGED <<taskSecret, clock, reqs, storage, runs>>

(* ------------------------------- the system ---------------------------- *)

\* Time passes.
Advance ==
  /\ clock < MaxClock
  /\ clock' = clock + 1
  /\ UNCHANGED <<taskSecret, reqs, storage, ticks, runs>>

Init ==
  /\ taskSecret \in TaskSecretValues
  /\ clock = 0
  /\ reqs = [r \in Reqs |-> IdleReq]
  /\ storage = {}
  /\ ticks = [t \in Ticks |-> IdleTick]
  /\ runs = [k \in Runs |-> IdleRun]

Next ==
  \/ Advance
  \/ \E raw \in RawBodies : Request(raw)
  \/ \E r \in Reqs : Handle(r)
  \/ \E r \in Reqs : \E ok \in BOOLEAN : SettleSetItem(r, ok)
  \/ RunTask
  \/ \E k \in Runs : \E ok \in BOOLEAN : SettleSet(k, ok)
  \/ \E v \in Variants : \E m \in Metas : Invoke(v, m)
  \/ \E t \in Ticks : JsonRejected(t)
  \/ \E t \in Ticks : \E secret \in EnvSecretValues : FetchSite(t, secret)
  \/ \E t \in Ticks : \E secret \in EnvSecretValues : FetchOther(t, secret)
  \/ \E t \in Ticks : EndpointAnswers(t)
  \/ \E t \in Ticks : \E resp \in OtherResponses : OtherAnswers(t, resp)
  \/ \E t \in Ticks : TransportError(t)

Spec == Init /\ [][Next]_vars

\* The endpoint under requests from any caller, beside the in-process task
\* that writes to the same storage.
NextEndpoint ==
  \/ Advance
  \/ \E raw \in RawBodies : Request(raw)
  \/ \E r \in Reqs : Handle(r)
  \/ \E r \in Reqs : \E ok \in BOOLEAN : SettleSetItem(r, ok)
  \/ RunTask
  \/ \E k \in Runs : \E ok \in BOOLEAN : SettleSet(k, ok)

SpecEndpoint == Init /\ [][NextEndpoint]_vars

\* The scheduled function and the endpoint it calls; every request to the
\* endpoint is one the function has sent.
NextTrigger ==
  \/ Advance
  \/ \E r \in Reqs : Handle(r)
  \/ \E r \in Reqs : \E ok \in BOOLEAN : SettleSetItem(r, ok)
  \/ \E v \in Variants : \E m \in Metas : Invoke(v, m)
  \/ \E t \in Ticks : JsonRejected(t)
  \/ \E t \in Ticks : \E secret \in EnvSecretValues : FetchSite(t, secret)
  \/ \E t \in Ticks : \E secret \in EnvSecretValues : FetchOther(t, secret)
  \/ \E t \in Ticks : EndpointAnswers(t)
  \/ \E t \in Ticks : \E resp \in OtherResponses : OtherAnswers(t, resp)
  \/ \E t \in Ticks : TransportError(t)

SpecTrigger == Init /\ [][NextTrigger]_vars

(* ================================ claims =============================== *)

\* The Shared Secret is configured: neither missing nor empty.
Configured == taskSecret \notin {Undefined, ""}

\* The secret a request presents: the secret field of an object body.
Presented(r) == IF reqs[r].raw.kind = "object" THEN reqs[r].raw.secret ELSE Undefined

\* Request r arrived with the configured secret in its body.
Authorized(r) == Configured /\ reqs[r].raw.kind = "object" /\ reqs[r].raw.secret = taskSecret

Done(r) == reqs[r].pc = "done"

Succeeded(r) == Done(r) /\ reqs[r].response.status = 200

EndpointKey(n) == StorageKey("string", ToString(n))

\* C1: every record the endpoint has written to the 'example:record' storage
\* was written by a request that carried exactly the configured, non-empty
\* Shared Secret, and no other request ever called storage.setItem.
C1_OnlyAuthorizedWrites ==
  /\ \A e \in storage : e.by.kind = "endpoint" => Authorized(e.by.id)
  /\ \A r \in Reqs : reqs[r].setCalls > 0 => Authorized(r)

C1_Witness ==
  \E e \in storage : e.by.kind = "endpoint" /\ Done(e.by.id)

\* C2 as stated: with the Shared Secret empty or missing, every request,
\* whatever its body, ends with 500 "Secret must be set" and no task run.
C2_Original ==
  \A r \in Reqs :
    (Done(r) /\ ~Configured) =>
      /\ reqs[r].response.status = 500
      /\ reqs[r].response.statusMessage = "Secret must be set"
      /\ reqs[r].setCalls = 0

\* C2 amended: with the Shared Secret empty or missing the task is never
\* run; a request whose body readBody can read (no body, or an object whose
\* secret is anything, empty and undefined included) ends with 500 "Secret
\* must be set"; a body readBody rejects ends with readBody's own 400,
\* before the secret is looked at.
C2_Amended ==
  \A r \in Reqs :
    ~Configured =>
      /\ reqs[r].setCalls = 0
      /\ reqs[r].setItem = "none"
      /\ Done(r) /\ reqs[r].raw.kind # "malformed" =>
           /\ reqs[r].response.status = 500
           /\ reqs[r].response.statusMessage = "Secret must be set"
      /\ Done(r) /\ reqs[r].raw.kind = "malformed" => reqs[r].response.status = 400

C2_Witness ==
  \E r \in Reqs :
    /\ Done(r)
    /\ taskSecret = ""
    /\ reqs[r].raw = RawBody("object", "")
    /\ reqs[r].response.status = 500

\* C3: with the Shared Secret configured, every request whose body can be
\* read and whose secret differs from it (a wrong string, no secret field, no
\* body at all) ends with 401 "Unauthorized" and no task run.
C3_Claim ==
  \A r \in Reqs :
    (Done(r) /\ Configured /\ reqs[r].raw.kind \in {"empty", "object"}
       /\ Presented(r) # taskSecret) =>
      /\ reqs[r].response.status = 401
      /\ reqs[r].response.statusMessage = "Unauthorized"
      /\ reqs[r].setCalls = 0

\* C4: a request carrying the correct secret calls storage.setItem exactly
\* once, and when that write succeeds the record is stored under String(now)
\* and the response is success: true, timestamp: the Date.now() read when the
\* work was started, message: "Task completed successfully".
C4_AuthorizedRunsOnce ==
  \A r \in Reqs :
    (Authorized(r) /\ reqs[r].pc \in {"setItem", "done"}) =>
      /\ reqs[r].setCalls = 1
      /\ reqs[r].now \in 0..clock
      /\ (Done(r) /\ reqs[r].setItem = "resolved") =>
           /\ reqs[r].response =
                Response(200, "", "true", reqs[r].now, "Task completed successfully",
                         "absent")
           /\ \E e \in storage : e.key = EndpointKey(reqs[r].now) /\ e.value = reqs[r].now

C4_Witness ==
  \E r \in Reqs :
    /\ Authorized(r)
    /\ Done(r)
    /\ reqs[r].setItem = "resolved"
    /\ reqs[r].now < clock

\* C5: when storage.setItem rejects during an authorized request, the
\* response is not a success result: it is a non-2xx response without
\* success: true.
C5_WriteFailurePropagates ==
  \A r \in Reqs :
    reqs[r].setItem = "rejected" =>
      /\ Done(r)
      /\ reqs[r].response.success # "true"
      /\ reqs[r].response.status \notin 200..299

C5_Witness ==
  \E r \in Reqs : Authorized(r) /\ reqs[r].setItem = "rejected"

\* C8 as stated: any two successful invocations carry differing timestamps.
C8_Original ==
  \A r1, r2 \in Reqs :
    (r1 # r2 /\ Succeeded(r1) /\ Succeeded(r2)) =>
      reqs[r1].response.timestamp # reqs[r2].response.timestamp

\* C8 amended: there is no deduplication: two invocations with valid
\* credentials each call storage.setItem once and each return their own
\* Date.now() reading; the two timestamps, and the two records, are distinct
\* exactly when the two readings differ, and two invocations that read the
\* same millisecond write the same key and leave one record.
C8_Amended ==
  \A r1, r2 \in Reqs :
    (r1 # r2 /\ Succeeded(r1) /\ Succeeded(r2)) =>
      /\ reqs[r1].setCalls = 1 /\ reqs[r2].setCalls = 1
      /\ reqs[r1].response.timestamp = reqs[r1].now
      /\ reqs[r2].response.timestamp = reqs[r2].now
      /\ Cardinality({e \in storage :
                        e.key \in {EndpointKey(reqs[r1].now), EndpointKey(reqs[r2].now)}})
           = IF reqs[r1].now = reqs[r2].now THEN 1 ELSE 2

C8_Witness ==
  \E r1, r2 \in Reqs :
    /\ r1 # r2 /\ Succeeded(r1) /\ Succeeded(r2)
    /\ reqs[r1].now = reqs[r2].now
    /\ Cardinality(storage) = 1

HasLine(t, text) == \E l \in ticks[t].log : l.text = text

\* C6: a finished tick has logged "Task completed:" only for a response with
\* success true, and has logged "Task failed:" whenever the response's
\* success field was false or absent.
C6_Claim ==
  \A t \in Ticks :
    ticks[t].pc = "done" =>
      /\ HasLine(t, "Task completed:") => ticks[t].received.success = "true"
      /\ ticks[t].received.success # "true" => HasLine(t, "Task failed:")

\* C7: no invocation of the scheduled function ends with an uncaught
\* exception.
C7_Claim == \A t \in Ticks : ticks[t].pc # "crashed"

\* C9: a run of the task 'example:record' returns what the endpoint returns
\* for the same clock value (success, timestamp, message), has its write
\* under the endpoint's key completed when it returns, and throws when the
\* write fails.
C9_Claim ==
  \A k \in Runs :
    runs[k].pc = "returned" =>
      /\ runs[k].result.success = "true"
      /\ runs[k].result.timestamp = runs[k].now
      /\ runs[k].result.message # "absent"
      /\ runs[k].set # "pending"
      /\ runs[k].set = "resolved" =>
           \E e \in storage : e.key = EndpointKey(runs[k].now) /\ e.value = runs[k].now
      /\ runs[k].set = "rejected" => runs[k].threw

\* The values of the Shared Secret held by the endpoint and by the ticks.
SecretValues ==
  ({taskSecret} \cup {ticks[t].secret : t \in Ticks}) \ {Undefined, ""}

LogLines ==
  UNION ({reqs[r].log : r \in Reqs} \cup {ticks[t].log : t \in Ticks})

\* C10: no log line of the endpoint or of the scheduled function, and no
\* response of the endpoint, contains a Shared Secret value.
C10_SecretNeverPrinted ==
  /\ \A l \in LogLines : l.strs \cap SecretValues = {}
  /\ \A r \in Reqs : Printed(reqs[r].response) \cap SecretValues = {}

C10_Witness ==
  \E t \in Ticks :
    /\ ticks[t].pc = "done"
    /\ Configured
    /\ ticks[t].secret = WrongSecret
    /\ ticks[t].received.status = 401
    /\ HasLine(t, "Task failed:")

====
